---- MODULE Spec2Model ----
(***************************************************************************)
(* A model of biostar/recipes/models.py: the Project, Access, Data,        *)
(* Analysis and Job tables, the directories and manifest files their save  *)
(* handlers create, and the derivations read from them (counts, clone      *)
(* propagation, runnable, json_data, make_toc).                            *)
(*                                                                         *)
(* A table is a function from primary key to row.  A row holds the fields  *)
(* the handlers below read or write; display-only fields (date, label,     *)
(* sharable_token, privacy, rank, the logs) are not carried.  A handler is *)
(* an operator from the database S to [self, S]: the instance as it is     *)
(* after the call and the database after the call.                         *)
(***************************************************************************)
EXTENDS Integers, Sequences, FiniteSets, TLC

VARIABLES
    project,    \* Project table: pk -> row
    data,       \* Data table: pk -> row
    analysis,   \* Analysis table: pk -> row
    job,        \* Job table: pk -> row
    access,     \* Access table: sequence of rows, the index is the pk
    dirs,       \* directories that exist on the filesystem (paths)
    manifest,   \* table-of-contents files that exist: path -> content
    tree,       \* regular files under the data directories: path -> size
    broken,     \* paths that cannot be created now (no space, no permission)
    proc,       \* requests that run at the same time: where each is in its
                \* Data.save and the instances it holds
    last        \* the last completed call: its name, arguments and result

vars == <<project, data, analysis, job, access, dirs, manifest, tree, broken, proc, last>>

-----------------------------------------------------------------------------
(* Program constants *)

\* null=True foreign keys and unset dates; primary keys start at 1
NULL == 0

AUTHORIZED == 1
NOT_AUTHORIZED == 2
UNDER_REVIEW == 2
WRITE_ACCESS == 3

\* character codes: the "\n" that joins the manifest's lines, the "/" of a path
NL == 10
Slash == 47

QUEUED == 1
RUNNING == 2
COMPLETED == 3
ERROR == 4
SPOOLED == 5
PAUSED == 6

-----------------------------------------------------------------------------
(* Bounds of the model *)

\* Spec: projects, and Data, Analysis and Job rows over all projects
MaxProject == 2
MaxChildren == 2

\* SpecClone: Analysis rows
MaxRecipe == 3

\* SpecRunnable: Analysis and Job rows together
MaxRunRows == 3

\* SpecJson: Analysis and Job rows together
MaxJsonRows == 2

\* SpecUid: Data, Analysis and Job rows together
MaxUidRows == 2

\* SpecTemplate: Job rows
MaxTemplateJobs == 2

\* SpecFs: paths that cannot be created at one time
MaxBroken == 1

\* SpecDelete: Data, Analysis and Job rows together
MaxDeleteRows == 3

\* SpecCascade: Analysis and Job rows together
MaxCascadeRows == 3

\* SpecState: Job rows
MaxStateJobs == 1

\* SpecRace: requests that run at the same time
MaxProcs == 2

\* SpecElapsed: whole days in the longest time between a job's two dates
MaxDays == 1

\* SpecToc: files under the data directory at one time
MaxFiles == 2

Users == {"alice", "bob"}
\* users whose profile is trusted (biostar.accounts, read by make_html)
TrustedUsers == {"alice"}

-----------------------------------------------------------------------------
(* Helpers *)

RECURSIVE Project_save(_, _, _, _)

\* the database as one value
Cur == [project |-> project, data |-> data, analysis |-> analysis, job |-> job,
        access |-> access, dirs |-> dirs, manifest |-> manifest, broken |-> broken]

Apply(S) ==
    /\ project' = S.project
    /\ data' = S.data
    /\ analysis' = S.analysis
    /\ job' = S.job
    /\ access' = S.access
    /\ dirs' = S.dirs
    /\ manifest' = S.manifest

MaxOf(s) == CHOOSE m \in s : \A n \in s : n <= m

\* the primary key the storage layer gives the next inserted row
NextPk(tbl) == IF DOMAIN tbl = {} THEN 1 ELSE MaxOf(DOMAIN tbl) + 1

\* super().save(): insert when the instance has no pk, else update that row
Store(tbl, row) == (row.pk :> row) @@ tbl

\* util.get_uuid(8): eight characters, an identifier no row of the table holds
get_uuid(kind, tbl) == kind \o "000" \o ToString(NextPk(tbl))

\* os.makedirs(path): the directory and every missing ancestor
makedirs(path, ds) == ds \cup {SubSeq(path, 1, k) : k \in 1..Len(path)}

\* os.makedirs(path) raises OSError: a missing directory of the path cannot be
\* created
MakedirsFails(path, S) ==
    \E k \in 1..Len(path) :
        SubSeq(path, 1, k) \notin S.dirs /\ SubSeq(path, 1, k) \in S.broken

make_html(text, user) ==
    [markdown |-> text, escape |-> ~(user # "" /\ user \in TrustedUsers)]

-----------------------------------------------------------------------------
(* Parameter payloads *)

\* a parsed value: a string, a number, a list (n its length) or a mapping from
\* keys to values
StrV(s) == [kind |-> "str", s |-> s, n |-> 0, m |-> << >>]
IntV(n) == [kind |-> "int", s |-> "", n |-> n, m |-> << >>]
ListV(n) == [kind |-> "list", s |-> "", n |-> n, m |-> << >>]
MapV(m) == [kind |-> "map", s |-> "", n |-> 0, m |-> m]

\* bool(value)
Truthy(v) ==
    CASE v.kind = "str" -> v.s # ""
      [] v.kind = "int" -> v.n # 0
      [] v.kind = "list" -> v.n # 0
      [] v.kind = "map" -> DOMAIN v.m # {}

\* hjson.loads (the toml parser) on the payloads of the model: the mapping
\* parsed, or ok = FALSE where it raises
loads(text) ==
    CASE text = "" -> [ok |-> TRUE, value |-> << >>]
      [] text = "title = 'x'" -> [ok |-> TRUE, value |-> ("title" :> StrV("x"))]
      [] text = "title = 'x'\n[settings]\nname = 'old'\nextra = 'keep'" ->
            [ok |-> TRUE,
             value |-> ("title" :> StrV("x"))
                       @@ ("settings" :> MapV(("name" :> StrV("old"))
                                             @@ ("extra" :> StrV("keep"))))]
      [] text = "[settings]" -> [ok |-> TRUE, value |-> ("settings" :> MapV(<< >>))]
      [] text = "title = 'x'\nsettings = 'abc'" ->
            [ok |-> TRUE,
             value |-> ("title" :> StrV("x")) @@ ("settings" :> StrV("abc"))]
      [] text = "settings = 5" -> [ok |-> TRUE, value |-> ("settings" :> IntV(5))]
      [] text = "settings = 0" -> [ok |-> TRUE, value |-> ("settings" :> IntV(0))]
      [] text = "settings = [1, 2]" -> [ok |-> TRUE, value |-> ("settings" :> ListV(2))]
      [] OTHER -> [ok |-> FALSE, value |-> << >>]

\* '_'.join(name.split()) on the names of the model
Slug(name) ==
    CASE name = "New Recipe" -> "New_Recipe"
      [] OTHER -> name

-----------------------------------------------------------------------------
(* Project *)

get_project_dir(p) == <<"MEDIA_ROOT", "projects", p.uid>>

\* the live children of project pk in a table
Children(tbl, pk) == {i \in DOMAIN tbl : tbl[i].project = pk /\ tbl[i].deleted = FALSE}

\* the hook without the test for an existing row
update_access_Always(instance, S) ==
    [S EXCEPT !.access = Append(@, [user |-> instance.owner,
                                    project |-> instance.pk,
                                    access |-> WRITE_ACCESS])]

update_access(instance, S) ==
    LET entry == {i \in DOMAIN S.access :
                     /\ S.access[i].user = instance.owner
                     /\ S.access[i].project = instance.pk
                     /\ S.access[i].access = WRITE_ACCESS}
    IN IF entry = {}
       THEN [S EXCEPT !.access = Append(@, [user |-> instance.owner,
                                            project |-> instance.pk,
                                            access |-> WRITE_ACCESS])]
       ELSE S

\* set_counts with the deleted filter left out
set_counts_CountsDeleted(self, save, now, S) ==
    LET all(tbl) == {i \in DOMAIN tbl : tbl[i].project = self.pk}
        counted == [self EXCEPT
                       !.data_count = Cardinality(all(S.data)),
                       !.recipes_count = Cardinality(all(S.analysis)),
                       !.jobs_count = Cardinality(all(S.job))]
    IN IF save
       THEN Project_save(counted, now, "", S)
       ELSE [self |-> counted, S |-> S, raised |-> FALSE]

set_counts(self, save, now, S) ==
    LET counted == [self EXCEPT
                       !.data_count = Cardinality(Children(S.data, self.pk)),
                       !.recipes_count = Cardinality(Children(S.analysis, self.pk)),
                       !.jobs_count = Cardinality(Children(S.job, self.pk))]
    IN IF save
       THEN Project_save(counted, now, "", S)
       ELSE [self |-> counted, S |-> S, raised |-> FALSE]

Project_save(self, now, fresh, S) ==
    LET s1 == [self EXCEPT
                  !.uid = IF @ # "" THEN @ ELSE fresh,
                  !.lastedit_user = IF @ # "" THEN @ ELSE self.owner,
                  !.lastedit_date = IF @ # NULL THEN @ ELSE now]
        s2 == set_counts(s1, FALSE, now, S).self
        S1 == [S EXCEPT !.dirs = makedirs(get_project_dir(s2), @)]
        row == [s2 EXCEPT !.pk = IF @ # NULL THEN @ ELSE NextPk(S.project)]
        S2 == [S1 EXCEPT !.project = Store(@, row)]
    IN IF MakedirsFails(get_project_dir(s2), S)
       THEN [self |-> s2, S |-> S, raised |-> TRUE]
       ELSE [self |-> row, S |-> update_access(row, S2), raised |-> FALSE]

-----------------------------------------------------------------------------
(* Data *)

Data_get_data_dir(self, S) == Append(get_project_dir(S.project[self.project]), self.uid)

get_path(self) == <<"TOC_ROOT", "toc-" \o self.uid \o ".txt">>

\* Data.save that opens the manifest for writing whether or not it exists
Data_save_Truncates(self, now, fresh, S) ==
    LET s1 == [self EXCEPT !.uid = IF @ # "" THEN @ ELSE fresh]
        S1 == [S EXCEPT !.dirs = makedirs(Data_get_data_dir(s1, S), @)]
        s2 == [s1 EXCEPT !.file = get_path(s1)]
        S2 == [S1 EXCEPT !.manifest = (s2.file :> << >>) @@ @]
        row == [s2 EXCEPT !.pk = IF @ # NULL THEN @ ELSE NextPk(S.data)]
        S3 == [S2 EXCEPT !.data = Store(@, row)]
    IN [self |-> row, S |-> set_counts(S3.project[self.project], TRUE, now, S3).S,
        raised |-> FALSE]

\* Data.save with the counts refreshed before the row is written, the order
\* Analysis.save and Job.save use
Data_save_CountsFirst(self, now, fresh, S) ==
    LET s1 == [self EXCEPT !.uid = IF @ # "" THEN @ ELSE fresh]
        S1 == [S EXCEPT !.dirs = makedirs(Data_get_data_dir(s1, S), @)]
        s2 == [s1 EXCEPT !.file = get_path(s1)]
        S2 == IF s2.file \in DOMAIN S1.manifest
              THEN S1
              ELSE [S1 EXCEPT !.manifest = (s2.file :> << >>) @@ @]
        S3 == set_counts(S.project[self.project], TRUE, now, S2).S
        row == [s2 EXCEPT !.pk = IF @ # NULL THEN @ ELSE NextPk(S.data)]
    IN [self |-> row, S |-> [S3 EXCEPT !.data = Store(@, row)], raised |-> FALSE]

Data_save(self, now, fresh, S) ==
    LET s1 == [self EXCEPT !.uid = IF @ # "" THEN @ ELSE fresh]
        S1 == [S EXCEPT !.dirs = makedirs(Data_get_data_dir(s1, S), @)]
        s2 == [s1 EXCEPT !.file = get_path(s1)]
        S2 == IF s2.file \in DOMAIN S1.manifest
              THEN S1
              ELSE [S1 EXCEPT !.manifest = (s2.file :> << >>) @@ @]
        row == [s2 EXCEPT !.pk = IF @ # NULL THEN @ ELSE NextPk(S.data)]
        S3 == [S2 EXCEPT !.data = Store(@, row)]
        counted == set_counts(S.project[self.project], TRUE, now, S3)
    IN IF MakedirsFails(Data_get_data_dir(s1, S), S)
       THEN [self |-> s1, S |-> S, raised |-> TRUE]
       ELSE IF s2.file \notin DOMAIN S1.manifest /\ s2.file \in S.broken
       THEN [self |-> s2, S |-> S1, raised |-> TRUE]
       ELSE [self |-> row, S |-> counted.S, raised |-> counted.raised]

\* a path as the string of its characters (their codes); each component of the
\* model's paths is written with the characters below
Chars(name) ==
    CASE name = "MEDIA_ROOT" -> <<Slash, 109>>
      [] name = "projects" -> <<112>>
      [] name = "proj0001" -> <<112, 49>>
      [] name = "data0001" -> <<100, 49>>
      [] OTHER -> <<120>>

RECURSIVE PathChars(_)
PathChars(path) ==
    IF Len(path) = 1 THEN Chars(path[1])
    ELSE PathChars(SubSeq(path, 1, Len(path) - 1)) \o <<Slash>> \o Chars(path[Len(path)])

IsPrefix(a, b) == Len(a) <= Len(b) /\ SubSeq(b, 1, Len(a)) = a

\* the regular files under dir, at any depth
FilesUnder(dir, tr) == {f \in DOMAIN tr : IsPrefix(PathChars(dir) \o <<Slash>>, f)}

\* util.findfiles(dir, collect=[]): the files under dir, in the order the walk
\* meets them
findfiles(dir, tr) ==
    LET found == FilesUnder(dir, tr)
        n == Cardinality(found)
    IN {w \in [1..n -> found] : \A i, j \in 1..n : w[i] = w[j] => i = j}

\* str < str: by the first character that differs, a proper prefix first
RECURSIVE LexLess(_, _)
LexLess(a, b) ==
    IF a = << >> THEN b # << >>
    ELSE IF b = << >> THEN FALSE
    ELSE IF a[1] # b[1] THEN a[1] < b[1]
    ELSE LexLess(Tail(a), Tail(b))

\* list.sort()
RECURSIVE Sort(_)
Sort(seq) ==
    IF seq = << >> THEN << >>
    ELSE LET rest == Sort(Tail(seq))
             below == {i \in 1..Len(rest) : LexLess(rest[i], Head(seq))}
             k == Cardinality(below)
         IN SubSeq(rest, 1, k) \o <<Head(seq)>> \o SubSeq(rest, k + 1, Len(rest))

\* sep.join(seq)
RECURSIVE Join(_, _)
Join(seq, sep) ==
    IF seq = << >> THEN << >>
    ELSE IF Len(seq) = 1 THEN seq[1]
    ELSE seq[1] \o sep \o Join(Tail(seq), sep)

RECURSIVE SumSizes(_, _, _)
SumSizes(collect, gone, tr) ==
    IF collect = << >> THEN 0
    ELSE (IF Head(collect) \in gone THEN 0 ELSE tr[Head(collect)])
         + SumSizes(Tail(collect), gone, tr)

\* make_toc that writes the paths in the order of the walk
make_toc_Unsorted(self, collect, gone, tr, S) ==
    LET tocname == get_path(self)
        S1 == [S EXCEPT !.manifest = (tocname :> Join(collect, <<NL>>)) @@ @]
        size == SumSizes(collect, gone, tr)
    IN [self |-> [self EXCEPT !.size = size, !.file = tocname,
                              !.file_count = Len(collect)],
        S |-> S1]

\* make_toc that opens the manifest to append to it
make_toc_Appends(self, collect, gone, tr, S) ==
    LET tocname == get_path(self)
        sorted == Sort(collect)
        old == IF tocname \in DOMAIN S.manifest THEN S.manifest[tocname] ELSE << >>
        S1 == [S EXCEPT !.manifest = (tocname :> old \o Join(sorted, <<NL>>)) @@ @]
        size == SumSizes(sorted, gone, tr)
    IN [self |-> [self EXCEPT !.size = size, !.file = tocname,
                              !.file_count = Len(sorted)],
        S |-> S1]

\* make_toc that asks the size of every collected path, and adds 0 for a path
\* that is gone but leaves it out of the count
make_toc_SkipsVanished(self, collect, gone, tr, S) ==
    LET tocname == get_path(self)
        sorted == Sort(collect)
        S1 == [S EXCEPT !.manifest = (tocname :> Join(sorted, <<NL>>)) @@ @]
        size == SumSizes(sorted, gone, tr)
    IN [self |-> [self EXCEPT !.size = size, !.file = tocname,
                              !.file_count = Len(sorted) - Cardinality(gone)],
        S |-> S1]

\* collect is the list findfiles returned; gone are the files of it that no
\* longer exist when their size is asked
make_toc(self, collect, gone, tr, S) ==
    LET tocname == get_path(self)
        sorted == Sort(collect)
        S1 == [S EXCEPT !.manifest = (tocname :> Join(sorted, <<NL>>)) @@ @]
        size == SumSizes(sorted, gone, tr)
    IN [self |-> [self EXCEPT !.size = size, !.file = tocname,
                              !.file_count = Len(sorted)],
        S |-> S1]

-----------------------------------------------------------------------------
(* Analysis *)

\* template.replace('\r\n', '\n') on the templates of the model
UnixLineEndings(template) ==
    CASE template = "echo hi\r\n" -> "echo hi\n"
      [] OTHER -> template

Analysis_save(self, now, fresh, S) ==
    LET proj == S.project[self.project]
        s1 == [self EXCEPT
                  !.uid = IF @ # "" THEN @ ELSE fresh,
                  !.text = IF @ # "" THEN @ ELSE "Recipe description",
                  !.name = IF @ # "" THEN @ ELSE "New Recipe"]
        s2 == [s1 EXCEPT
                  !.html = make_html(s1.text, self.lastedit_user),
                  !.lastedit_user = IF @ # "" THEN @
                                    ELSE IF self.owner # "" THEN self.owner
                                    ELSE proj.owner,
                  !.lastedit_date = IF @ # NULL THEN @ ELSE now,
                  !.template = IF @ # "" THEN UnixLineEndings(@) ELSE ""]
        S1 == [S EXCEPT !.project =
                  [q \in DOMAIN @ |->
                      IF @[q].uid = proj.uid
                      THEN [@[q] EXCEPT !.lastedit_date = now,
                                        !.lastedit_user = s2.lastedit_user]
                      ELSE @[q]]]
        counted == set_counts(proj, TRUE, now, S1)
        row == [s2 EXCEPT !.pk = IF @ # NULL THEN @ ELSE NextPk(S.analysis)]
    IN IF counted.raised
       THEN [self |-> s2, S |-> counted.S, raised |-> TRUE]
       ELSE [self |-> row, S |-> [counted.S EXCEPT !.analysis = Store(@, row)],
             raised |-> FALSE]

\* update_children over the default listing of recipes, which leaves the
\* deleted ones out
update_children_LiveOnly(self, S) ==
    LET children == {i \in DOMAIN S.analysis :
                        S.analysis[i].root = self.pk /\ ~S.analysis[i].deleted}
        S1 == [S EXCEPT !.analysis =
                  [i \in DOMAIN @ |->
                      IF i \in children
                      THEN [@[i] EXCEPT !.json_text = self.json_text,
                                        !.template = self.template,
                                        !.name = self.name,
                                        !.security = self.security,
                                        !.lastedit_date = self.lastedit_date,
                                        !.lastedit_user = self.lastedit_user,
                                        !.text = self.text,
                                        !.html = self.html,
                                        !.image = self.image]
                      ELSE @[i]]]
    IN [self |-> self,
        S |-> [S1 EXCEPT !.project =
                  [q \in DOMAIN @ |->
                      IF \E i \in children : S1.analysis[i].project = q
                      THEN [@[q] EXCEPT !.lastedit_date = self.lastedit_date,
                                        !.lastedit_user = self.lastedit_user]
                      ELSE @[q]]]]

\* update_children that also writes the project of the root
update_children_OwnProject(self, S) ==
    LET children == {i \in DOMAIN S.analysis : S.analysis[i].root = self.pk}
        S1 == [S EXCEPT !.analysis =
                  [i \in DOMAIN @ |->
                      IF i \in children
                      THEN [@[i] EXCEPT !.json_text = self.json_text,
                                        !.template = self.template,
                                        !.name = self.name,
                                        !.security = self.security,
                                        !.lastedit_date = self.lastedit_date,
                                        !.lastedit_user = self.lastedit_user,
                                        !.text = self.text,
                                        !.html = self.html,
                                        !.image = self.image]
                      ELSE @[i]]]
    IN [self |-> self,
        S |-> [S1 EXCEPT !.project =
                  [q \in DOMAIN @ |->
                      IF q = self.project \/ \E i \in children : S1.analysis[i].project = q
                      THEN [@[q] EXCEPT !.lastedit_date = self.lastedit_date,
                                        !.lastedit_user = self.lastedit_user]
                      ELSE @[q]]]]

\* update_children that follows the copies of copies
update_children_Transitive(self, S) ==
    LET direct == {i \in DOMAIN S.analysis : S.analysis[i].root = self.pk}
        children == direct \cup {i \in DOMAIN S.analysis : S.analysis[i].root \in direct}
        S1 == [S EXCEPT !.analysis =
                  [i \in DOMAIN @ |->
                      IF i \in children
                      THEN [@[i] EXCEPT !.json_text = self.json_text,
                                        !.template = self.template,
                                        !.name = self.name,
                                        !.security = self.security,
                                        !.lastedit_date = self.lastedit_date,
                                        !.lastedit_user = self.lastedit_user,
                                        !.text = self.text,
                                        !.html = self.html,
                                        !.image = self.image]
                      ELSE @[i]]]
    IN [self |-> self,
        S |-> [S1 EXCEPT !.project =
                  [q \in DOMAIN @ |->
                      IF \E i \in direct : S1.analysis[i].project = q
                      THEN [@[q] EXCEPT !.lastedit_date = self.lastedit_date,
                                        !.lastedit_user = self.lastedit_user]
                      ELSE @[q]]]]

update_children(self, S) ==
    LET children == {i \in DOMAIN S.analysis : S.analysis[i].root = self.pk}
        S1 == [S EXCEPT !.analysis =
                  [i \in DOMAIN @ |->
                      IF i \in children
                      THEN [@[i] EXCEPT !.json_text = self.json_text,
                                        !.template = self.template,
                                        !.name = self.name,
                                        !.security = self.security,
                                        !.lastedit_date = self.lastedit_date,
                                        !.lastedit_user = self.lastedit_user,
                                        !.text = self.text,
                                        !.html = self.html,
                                        !.image = self.image]
                      ELSE @[i]]]
    IN [self |-> self,
        S |-> [S1 EXCEPT !.project =
                  [q \in DOMAIN @ |->
                      IF \E i \in children : S1.analysis[i].project = q
                      THEN [@[q] EXCEPT !.lastedit_date = self.lastedit_date,
                                        !.lastedit_user = self.lastedit_user]
                      ELSE @[q]]]]

\* the settings keys json_data sets
DerivedKeys ==
    {"name", "template", "image", "id", "recipe_uid", "uid", "help", "url",
     "root_id", "root_uid"}

\* the derived settings written over the parsed payload; raised = TRUE where an
\* error reaches the caller
merge_settings(self, json_data, S) ==
    LET base == Slug(self.name) \o "_" \o S.project[self.project].uid
                   \o "_" \o ToString(self.pk)
        current_settings ==
            IF "settings" \in DOMAIN json_data /\ Truthy(json_data["settings"])
            THEN json_data["settings"]
            ELSE MapV(<< >>)
        derived ==
            [name |-> StrV(self.name),
             template |-> StrV(base \o ".sh"),
             image |-> StrV(base \o ".png"),
             id |-> IntV(self.pk),
             recipe_uid |-> StrV(self.uid),
             uid |-> StrV(self.uid),
             help |-> StrV(self.text),
             url |-> StrV("BASE_URL"),
             root_id |-> IF self.root # NULL THEN IntV(S.analysis[self.root].pk)
                         ELSE StrV(""),
             root_uid |-> IF self.root # NULL THEN StrV(S.analysis[self.root].uid)
                          ELSE StrV("")]
    IN IF current_settings.kind # "map"
       THEN \* item assignment on a string, a number or a list: TypeError
            [raised |-> TRUE, value |-> << >>]
       ELSE [raised |-> FALSE,
             value |-> ("settings" :> MapV(derived @@ current_settings.m)) @@ json_data]

\* json_data with a parse failure passed on to the caller
Analysis_json_data_Propagates(self, S) ==
    LET parsed == loads(self.json_text)
    IN IF parsed.ok
       THEN merge_settings(self, parsed.value, S)
       ELSE [raised |-> TRUE, value |-> << >>]

Analysis_json_data(self, S) ==
    LET parsed == loads(self.json_text)
        json_data == IF parsed.ok THEN parsed.value ELSE << >>
    IN merge_settings(self, json_data, S)

Analysis_runnable(self) == self.security = AUTHORIZED

-----------------------------------------------------------------------------
(* Job *)

make_path(self) == <<"MEDIA_ROOT", "jobs", self.uid>>

\* is_started that takes a paused job for started
Job_is_started_WithPaused(self) == self.state \in {QUEUED, SPOOLED, RUNNING, PAUSED}

Job_is_started(self) == self.state \in {QUEUED, SPOOLED, RUNNING}

Job_is_finished(self) == self.state \in {ERROR, COMPLETED}

\* Job.save that does not put a finished job back in the queue
Job_save_GuardsState(self, now, fresh, S) ==
    LET an == S.analysis[self.analysis]
        s1 == [self EXCEPT
                  !.uid = IF @ # "" THEN @ ELSE fresh,
                  !.template = an.template,
                  !.state = IF /\ self.pk \in DOMAIN S.job
                               /\ Job_is_finished(S.job[self.pk])
                               /\ @ = QUEUED
                            THEN S.job[self.pk].state
                            ELSE @]
        s2 == [s1 EXCEPT !.path = make_path(s1)]
        S1 == [S EXCEPT !.dirs = makedirs(s2.path, @)]
        S2 == set_counts(S.project[self.project], TRUE, now, S1).S
        row == [s2 EXCEPT !.pk = IF @ # NULL THEN @ ELSE NextPk(S.job)]
    IN [self |-> row, S |-> [S2 EXCEPT !.job = Store(@, row)], raised |-> FALSE]

\* Job.save that refreshes the project's counts before it makes the directory
Job_save_CountsBeforeDirs(self, now, fresh, S) ==
    LET an == S.analysis[self.analysis]
        s1 == [self EXCEPT
                  !.uid = IF @ # "" THEN @ ELSE fresh,
                  !.template = an.template]
        s2 == [s1 EXCEPT !.path = make_path(s1)]
        counted == set_counts(S.project[self.project], TRUE, now, S)
        S1 == [counted.S EXCEPT !.dirs = makedirs(s2.path, @)]
        row == [s2 EXCEPT !.pk = IF @ # NULL THEN @ ELSE NextPk(S.job)]
    IN IF counted.raised \/ MakedirsFails(s2.path, counted.S)
       THEN [self |-> s2, S |-> counted.S, raised |-> TRUE]
       ELSE [self |-> row, S |-> [S1 EXCEPT !.job = Store(@, row)], raised |-> FALSE]

\* Job.save that takes the recipe's template only when the job has none
Job_save_KeepsTemplate(self, now, fresh, S) ==
    LET an == S.analysis[self.analysis]
        s1 == [self EXCEPT
                  !.uid = IF @ # "" THEN @ ELSE fresh,
                  !.template = IF @ # "" THEN @ ELSE an.template]
        s2 == [s1 EXCEPT !.path = make_path(s1)]
        S1 == [S EXCEPT !.dirs = makedirs(s2.path, @)]
        S2 == set_counts(S.project[self.project], TRUE, now, S1).S
        row == [s2 EXCEPT !.pk = IF @ # NULL THEN @ ELSE NextPk(S.job)]
    IN [self |-> row, S |-> [S2 EXCEPT !.job = Store(@, row)], raised |-> FALSE]

\* Job.save that draws a uid at every save
Job_save_FreshUid(self, now, fresh, S) ==
    LET an == S.analysis[self.analysis]
        s1 == [self EXCEPT !.uid = fresh, !.template = an.template]
        s2 == [s1 EXCEPT !.path = make_path(s1)]
        S1 == [S EXCEPT !.dirs = makedirs(s2.path, @)]
        S2 == set_counts(S.project[self.project], TRUE, now, S1).S
        row == [s2 EXCEPT !.pk = IF @ # NULL THEN @ ELSE NextPk(S.job)]
    IN [self |-> row, S |-> [S2 EXCEPT !.job = Store(@, row)], raised |-> FALSE]

Job_save(self, now, fresh, S) ==
    LET an == S.analysis[self.analysis]
        s1 == [self EXCEPT
                  !.uid = IF @ # "" THEN @ ELSE fresh,
                  !.template = an.template]
        s2 == [s1 EXCEPT !.path = make_path(s1)]
        S1 == [S EXCEPT !.dirs = makedirs(s2.path, @)]
        counted == set_counts(S.project[self.project], TRUE, now, S1)
        row == [s2 EXCEPT !.pk = IF @ # NULL THEN @ ELSE NextPk(S.job)]
    IN IF MakedirsFails(s2.path, S)
       THEN [self |-> s2, S |-> S, raised |-> TRUE]
       ELSE IF counted.raised
       THEN [self |-> s2, S |-> counted.S, raised |-> TRUE]
       ELSE [self |-> row, S |-> [counted.S EXCEPT !.job = Store(@, row)],
             raised |-> FALSE]

Job_json_data(self) ==
    LET parsed == loads(self.json_text)
    IN [raised |-> FALSE, value |-> IF parsed.ok THEN parsed.value ELSE << >>]

\* timedelta.seconds: the seconds within the day, the days being counted apart
DaySeconds == 86400

timedelta_seconds(d) == d % DaySeconds

\* round(seconds / 3600, 1), in tenths; no time the model uses falls half way
\* between two tenths
HourTenths(seconds) == (seconds + 180) \div 360

TenthsText(t) == ToString(t \div 10) \o "." \o ToString(t % 10)

Job_elapsed(self) ==
    IF ~(self.start_date # NULL /\ self.end_date # NULL) THEN ""
    ELSE LET seconds == timedelta_seconds(self.end_date - self.start_date)
         IN IF seconds < 60 THEN ToString(seconds) \o " seconds"
            ELSE IF seconds < 3600 THEN ToString(seconds \div 60) \o " minutes"
            ELSE TenthsText(HourTenths(seconds)) \o " hours"

\* runnable with "or" for "and"
Job_runnable_Either(self, S) ==
    Analysis_runnable(S.analysis[self.analysis]) \/ self.security = AUTHORIZED

Job_runnable(self, S) ==
    Analysis_runnable(S.analysis[self.analysis]) /\ self.security = AUTHORIZED

-----------------------------------------------------------------------------
(* Instances handed to the handlers: a new instance as its constructor     *)
(* leaves it (the field defaults of the class), or a stored row as loaded, *)
(* with the caller's edits.                                                 *)

NewProject(owner, t) ==
    [pk |-> NULL, uid |-> "", owner |-> owner, lastedit_user |-> "",
     lastedit_date |-> t, data_count |-> 0, recipes_count |-> 0, jobs_count |-> 0]

NewData(p) ==
    [pk |-> NULL, uid |-> "", project |-> p, deleted |-> FALSE,
     file |-> << >>, size |-> 0, file_count |-> 0]

NewAnalysis(p, owner, root, t) ==
    [pk |-> NULL, uid |-> "", project |-> p, deleted |-> FALSE, root |-> root,
     owner |-> owner, security |-> NOT_AUTHORIZED, name |-> "New Recipe",
     text |-> "This is the recipe description.",
     html |-> [markdown |-> "html", escape |-> TRUE],
     lastedit_user |-> "", lastedit_date |-> t,
     json_text |-> "", template |-> "", image |-> "", rank |-> 100]

NewJob(a, p, owner) ==
    [pk |-> NULL, uid |-> "", project |-> p, analysis |-> a, deleted |-> FALSE,
     owner |-> owner, security |-> UNDER_REVIEW, state |-> QUEUED,
     template |-> "makefile", path |-> << >>, json_text |-> "commands",
     start_date |-> NULL, end_date |-> NULL]

-----------------------------------------------------------------------------
(* Actions: one per handler *)

ProjectSave(self, now) ==
    /\ LET r == Project_save(self, now, get_uuid("proj", project), Cur)
       IN /\ Apply(r.S)
          /\ last' = [op |-> "Project.save", pk |-> r.self.pk, project |-> r.self.pk,
                      given |-> self.uid, raised |-> r.raised]
    /\ UNCHANGED <<tree, broken, proc>>

DataSave(self, now) ==
    /\ LET r == Data_save(self, now, get_uuid("data", data), Cur)
       IN /\ Apply(r.S)
          /\ last' = [op |-> "Data.save", pk |-> r.self.pk, project |-> self.project,
                      given |-> self.uid, raised |-> r.raised]
    /\ UNCHANGED <<tree, broken, proc>>

AnalysisSave(self, now) ==
    /\ LET r == Analysis_save(self, now, get_uuid("recp", analysis), Cur)
       IN /\ Apply(r.S)
          /\ last' = [op |-> "Analysis.save", pk |-> r.self.pk, project |-> self.project,
                      given |-> self.uid, raised |-> r.raised, now |-> now]
    /\ UNCHANGED <<tree, broken, proc>>

JobSave(self, now) ==
    /\ LET r == Job_save(self, now, get_uuid("jobs", job), Cur)
       IN /\ Apply(r.S)
          /\ last' = [op |-> "Job.save", pk |-> r.self.pk, project |-> self.project,
                      given |-> self.uid, raised |-> r.raised,
                      \* the state of the stored row before, and what the
                      \* instance came with
                      was |-> IF self.pk \in DOMAIN job THEN job[self.pk].state ELSE NULL,
                      kept |-> [f \in {"state", "security", "start_date", "end_date"}
                                   |-> self[f]]]
    /\ UNCHANGED <<tree, broken, proc>>

SetCounts(self, save, now) ==
    LET r == set_counts(self, save, now, Cur)
    IN /\ Apply(r.S)
       /\ last' = [op |-> "Project.set_counts", pk |-> self.pk, project |-> self.pk,
                   save |-> save, result |-> r.self]
       /\ UNCHANGED <<tree, broken, proc>>

MakeToc(self, collect, gone) ==
    LET r == make_toc(self, collect, gone, tree, Cur)
    IN /\ Apply(r.S)
       /\ tree' = [f \in DOMAIN tree \ gone |-> tree[f]]
       /\ UNCHANGED <<broken, proc>>
       /\ last' = [op |-> "Data.make_toc", pk |-> self.pk, project |-> self.project,
                   found |-> {collect[i] : i \in 1..Len(collect)},
                   in_order |-> (collect = Sort(collect)),
                   gone |-> gone, self |-> r.self,
                   \* the call before this one, when it was a make_toc of the
                   \* same record: what it wrote and which files went during it
                   prev |-> IF last.op = "Data.make_toc" /\ last.pk = self.pk
                            THEN <<[text |-> manifest[get_path(self)],
                                    size |-> last.self.size,
                                    file_count |-> last.self.file_count,
                                    gone |-> last.gone]>>
                            ELSE << >>]

\* the environment writes a file under a data directory, or removes one
WriteFile(path, size) ==
    /\ tree' = (path :> size) @@ tree
    /\ last' = [op |-> "write"]
    /\ UNCHANGED <<project, data, analysis, job, access, dirs, manifest, broken, proc>>

RemoveFile(path) ==
    /\ tree' = [f \in DOMAIN tree \ {path} |-> tree[f]]
    /\ last' = [op |-> "remove"]
    /\ UNCHANGED <<project, data, analysis, job, access, dirs, manifest, broken, proc>>

\* Data.save as far as super().save(): the directory, the manifest, the row
Data_insert(self, fresh, S) ==
    LET s1 == [self EXCEPT !.uid = IF @ # "" THEN @ ELSE fresh]
        S1 == [S EXCEPT !.dirs = makedirs(Data_get_data_dir(s1, S), @)]
        s2 == [s1 EXCEPT !.file = get_path(s1)]
        S2 == IF s2.file \in DOMAIN S1.manifest
              THEN S1
              ELSE [S1 EXCEPT !.manifest = (s2.file :> << >>) @@ @]
        row == [s2 EXCEPT !.pk = IF @ # NULL THEN @ ELSE NextPk(S.data)]
    IN [self |-> row, S |-> [S2 EXCEPT !.data = Store(@, row)]]

\* the three count queries of set_counts, their results put on the instance
Project_count(self, S) == set_counts(self, FALSE, NULL, S).self

\* the write with the counts taken again in the same step
Project_write_Recounts(self, S) ==
    LET row == Project_count(self, S)
        S1 == [S EXCEPT !.dirs = makedirs(get_project_dir(row), @)]
    IN update_access(row, [S1 EXCEPT !.project = Store(@, row)])

\* Project.save from the directory on: super().save() writes the instance as
\* it is, then the post_save hook
Project_write(self, S) ==
    LET S1 == [S EXCEPT !.dirs = makedirs(get_project_dir(self), @)]
    IN update_access(self, [S1 EXCEPT !.project = Store(@, self)])

\* Data.save of request p, a step at a time. The project instance is the one
\* read through self.project before the row is written.
RaceInsert(p, self) ==
    /\ p \notin DOMAIN proc
    /\ LET r == Data_insert(self, get_uuid("data", data), Cur)
       IN /\ Apply(r.S)
          /\ proc' = (p :> [pc |-> "count", self |-> r.self,
                            project |-> project[self.project]]) @@ proc
          /\ last' = [op |-> "Data.save:insert", pk |-> r.self.pk,
                      project |-> self.project, by |-> p]
    /\ UNCHANGED <<tree, broken>>

\* self.project.set_counts(save=True): the counts are read
RaceCount(p) ==
    /\ p \in DOMAIN proc
    /\ proc[p].pc = "count"
    /\ proc' = [proc EXCEPT ![p].pc = "recount",
                            ![p].project = Project_count(@, Cur)]
    /\ last' = [op |-> "Project.set_counts:count", pk |-> proc[p].project.pk,
                project |-> proc[p].project.pk, by |-> p]
    /\ UNCHANGED <<project, data, analysis, job, access, dirs, manifest, tree, broken>>

\* Project.save: set_counts(save=False) reads the counts again
RaceRecount(p) ==
    /\ p \in DOMAIN proc
    /\ proc[p].pc = "recount"
    /\ proc' = [proc EXCEPT ![p].pc = "write",
                            ![p].project = Project_count(@, Cur)]
    /\ last' = [op |-> "Project.save:count", pk |-> proc[p].project.pk,
                project |-> proc[p].project.pk, by |-> p]
    /\ UNCHANGED <<project, data, analysis, job, access, dirs, manifest, tree, broken>>

\* Project.save: the row is written
RaceWrite(p) ==
    /\ p \in DOMAIN proc
    /\ proc[p].pc = "write"
    /\ Apply(Project_write(proc[p].project, Cur))
    /\ proc' = [proc EXCEPT ![p].pc = "done"]
    /\ last' = [op |-> "Project.save:write", pk |-> proc[p].project.pk,
                project |-> proc[p].project.pk, by |-> p,
                counted |-> proc[p].project.data_count]
    /\ UNCHANGED <<tree, broken>>

is_cloned(self) == self.root # NULL

is_root(self) == self.root = NULL

Without(tbl, gone) == [i \in DOMAIN tbl \ gone |-> tbl[i]]

\* Model.delete() on recipes: on_delete of Job.analysis is CASCADE, of
\* Analysis.root SET_NULL
DeleteAnalyses(gone, S) ==
    LET jobs == {j \in DOMAIN S.job : S.job[j].analysis \in gone}
        kept == Without(S.analysis, gone)
    IN [S EXCEPT
          !.job = Without(@, jobs),
          !.analysis = [a \in DOMAIN kept |->
                           IF kept[a].root \in gone
                           THEN [kept[a] EXCEPT !.root = NULL]
                           ELSE kept[a]]]

\* deleting a recipe deletes the recipes that were copied from it
Analysis_delete_Cascade(self, S) ==
    DeleteAnalyses({self.pk} \cup {a \in DOMAIN S.analysis : S.analysis[a].root = self.pk}, S)

Analysis_delete(self, S) == DeleteAnalyses({self.pk}, S)

\* Model.delete() on a project: on_delete of Data.project, Analysis.project,
\* Job.project and Access.project is CASCADE
Project_delete(self, S) ==
    LET of(tbl) == {i \in DOMAIN tbl : tbl[i].project = self.pk}
        S1 == DeleteAnalyses(of(S.analysis), S)
    IN [S1 EXCEPT
          !.project = Without(@, {self.pk}),
          !.data = Without(@, of(S.data)),
          !.job = Without(@, of(S1.job)),
          !.access = SelectSeq(@, LAMBDA row : row.project # self.pk)]

AnalysisDelete(self) ==
    /\ Apply(Analysis_delete(self, Cur))
    /\ last' = [op |-> "Analysis.delete", pk |-> self.pk, project |-> self.project,
                clones |-> [a \in {c \in DOMAIN analysis : analysis[c].root = self.pk}
                               |-> analysis[a]]]
    /\ UNCHANGED <<tree, broken, proc>>

ProjectDelete(self) ==
    /\ Apply(Project_delete(self, Cur))
    /\ last' = [op |-> "Project.delete", pk |-> self.pk, project |-> self.pk,
                rows |-> Cardinality({d \in DOMAIN data : data[d].project = self.pk})
                         + Cardinality({a \in DOMAIN analysis : analysis[a].project = self.pk})
                         + Cardinality({j \in DOMAIN job : job[j].project = self.pk})]
    /\ UNCHANGED <<tree, broken, proc>>

\* the environment: a path becomes impossible to create, or possible again, and
\* a directory is removed with all that is under it
Break(path) ==
    /\ broken' = broken \cup {path}
    /\ last' = [op |-> "break"]
    /\ UNCHANGED <<project, data, analysis, job, access, dirs, manifest, tree, proc>>

Repair(path) ==
    /\ broken' = broken \ {path}
    /\ last' = [op |-> "repair"]
    /\ UNCHANGED <<project, data, analysis, job, access, dirs, manifest, tree, proc>>

RemoveDir(path) ==
    /\ dirs' = {d \in dirs : ~(Len(path) <= Len(d) /\ SubSeq(d, 1, Len(path)) = path)}
    /\ last' = [op |-> "rmdir"]
    /\ UNCHANGED <<project, data, analysis, job, access, manifest, tree, broken, proc>>

AnalysisJsonData(self) ==
    /\ last' = [op |-> "Analysis.json_data", pk |-> self.pk, project |-> self.project,
                self |-> self, result |-> Analysis_json_data(self, Cur)]
    /\ UNCHANGED <<project, data, analysis, job, access, dirs, manifest, tree, broken, proc>>

JobJsonData(self) ==
    /\ last' = [op |-> "Job.json_data", pk |-> self.pk, project |-> self.project,
                self |-> self, result |-> Job_json_data(self)]
    /\ UNCHANGED <<project, data, analysis, job, access, dirs, manifest, tree, broken, proc>>

JobIsStarted(self) ==
    /\ last' = [op |-> "Job.is_started", pk |-> self.pk, project |-> self.project,
                self |-> self, result |-> Job_is_started(self)]
    /\ UNCHANGED <<project, data, analysis, job, access, dirs, manifest, tree, broken, proc>>

JobIsFinished(self) ==
    /\ last' = [op |-> "Job.is_finished", pk |-> self.pk, project |-> self.project,
                self |-> self, result |-> Job_is_finished(self)]
    /\ UNCHANGED <<project, data, analysis, job, access, dirs, manifest, tree, broken, proc>>

JobElapsed(self) ==
    /\ last' = [op |-> "Job.elapsed", pk |-> self.pk, project |-> self.project,
                self |-> self, result |-> Job_elapsed(self)]
    /\ UNCHANGED <<project, data, analysis, job, access, dirs, manifest, tree, broken, proc>>

JobRunnable(self) ==
    /\ last' = [op |-> "Job.runnable", pk |-> self.pk, project |-> self.project,
                self |-> self, result |-> Job_runnable(self, Cur)]
    /\ UNCHANGED <<project, data, analysis, job, access, dirs, manifest, tree, broken, proc>>

UpdateChildren(self) ==
    LET r == update_children(self, Cur)
    IN /\ Apply(r.S)
       /\ last' = [op |-> "Analysis.update_children", pk |-> self.pk,
                   project |-> self.project, self |-> self]
       /\ UNCHANGED <<tree, broken, proc>>

-----------------------------------------------------------------------------
(* Spec: the four save handlers and set_counts on projects with children   *)
(* that are created, re-saved and soft-deleted.                             *)

Init ==
    /\ project = << >>
    /\ data = << >>
    /\ analysis = << >>
    /\ job = << >>
    /\ access = << >>
    /\ dirs = {}
    /\ manifest = << >>
    /\ tree = << >>
    /\ broken = {}
    /\ proc = << >>
    /\ last = [op |-> "init"]

NumChildren == Cardinality(DOMAIN data) + Cardinality(DOMAIN analysis)
                   + Cardinality(DOMAIN job)

ProjectInputs ==
    (IF Cardinality(DOMAIN project) < MaxProject THEN {NewProject("alice", 1)} ELSE {})
    \cup {project[p] : p \in DOMAIN project}

DataInputs ==
    (IF NumChildren < MaxChildren THEN {NewData(p) : p \in DOMAIN project} ELSE {})
    \cup {[data[d] EXCEPT !.deleted = del] : d \in DOMAIN data, del \in BOOLEAN}

AnalysisInputs ==
    (IF NumChildren < MaxChildren
     THEN {NewAnalysis(p, "alice", NULL, 1) : p \in DOMAIN project} ELSE {})
    \cup {[analysis[a] EXCEPT !.deleted = del] : a \in DOMAIN analysis, del \in BOOLEAN}

JobInputs ==
    (IF NumChildren < MaxChildren
     THEN {NewJob(a, analysis[a].project, "alice") : a \in DOMAIN analysis} ELSE {})
    \cup {[job[j] EXCEPT !.deleted = del] : j \in DOMAIN job, del \in BOOLEAN}

Next ==
    \/ \E self \in ProjectInputs : ProjectSave(self, 1)
    \/ \E self \in DataInputs : DataSave(self, 1)
    \/ \E self \in AnalysisInputs : AnalysisSave(self, 1)
    \/ \E self \in JobInputs : JobSave(self, 1)
    \/ \E p \in DOMAIN project, save \in BOOLEAN : SetCounts(project[p], save, 1)

Spec == Init /\ [][Next]_vars

-----------------------------------------------------------------------------
(* Properties of Spec *)

\* the rows of a table that belong to project p and are not deleted, counted
\* one row at a time
RECURSIVE CountRows(_, _, _)
CountRows(tbl, pks, p) ==
    IF pks = {} THEN 0
    ELSE LET i == CHOOSE x \in pks : TRUE
         IN (IF tbl[i].project = p /\ ~tbl[i].deleted THEN 1 ELSE 0)
            + CountRows(tbl, pks \ {i}, p)

LiveRows(tbl, p) == CountRows(tbl, DOMAIN tbl, p)

\* C1: Project.set_counts sets data_count, recipes_count and jobs_count of the
\* project to the number of its Data, Analysis and Job rows with deleted = false;
\* deleted rows and rows of other projects are not counted.
C1_SetCountsExact ==
    last.op = "Project.set_counts" =>
        /\ last.result.data_count = LiveRows(data, last.project)
        /\ last.result.recipes_count = LiveRows(analysis, last.project)
        /\ last.result.jobs_count = LiveRows(job, last.project)

\* set_counts ran on a project that holds a deleted Data row while another
\* project holds a live Data row, and counted neither
C1_Witness ==
    /\ last.op = "Project.set_counts"
    /\ \E d \in DOMAIN data : data[d].project = last.project /\ data[d].deleted
    /\ \E d \in DOMAIN data : data[d].project # last.project /\ ~data[d].deleted
    /\ last.result.data_count = 0

\* C2: when a Data.save (create, update or soft-delete) has completed, the stored
\* project row's data_count is the number of the project's Data rows with
\* deleted = false.
C2_DataSaveCounts ==
    last.op = "Data.save" =>
        project[last.project].data_count = LiveRows(data, last.project)

\* a Data.save soft-deleted one of two Data rows of a project: one is counted
C2_Witness ==
    /\ last.op = "Data.save"
    /\ data[last.pk].deleted
    /\ \E d \in DOMAIN data : data[d].project = last.project /\ ~data[d].deleted
    /\ project[last.project].data_count = 1

\* C3: when an Analysis.save or a Job.save (create, update or soft-delete) has
\* completed, the stored project row's recipes_count is the number of the
\* project's Analysis rows with deleted = false and its jobs_count the number of
\* its Job rows with deleted = false.
C3_RecipeJobSaveCounts ==
    last.op \in {"Analysis.save", "Job.save"} =>
        /\ project[last.project].recipes_count = LiveRows(analysis, last.project)
        /\ project[last.project].jobs_count = LiveRows(job, last.project)

-----------------------------------------------------------------------------
(* SpecClone: one project; a root recipe, its clones and clones of clones  *)
(* are created, edited, soft-deleted and saved, and update_children is     *)
(* called on a recipe as stored.                                           *)

\* the instance with the caller's assignments made
Edit(row, e) == [f \in DOMAIN row |-> IF f \in DOMAIN e THEN e[f] ELSE row[f]]

\* what a recipe form submits
RecipeA ==
    [json_text |-> "", template |-> "echo hi", name |-> "fastqc",
     security |-> NOT_AUTHORIZED, lastedit_date |-> 1, lastedit_user |-> "alice",
     text |-> "Runs fastqc", image |-> ""]

RecipeB ==
    [json_text |-> "title = 'x'", template |-> "echo bye", name |-> "align",
     security |-> AUTHORIZED, lastedit_date |-> 2, lastedit_user |-> "bob",
     text |-> "Aligns reads", image |-> "align.png"]

RecipeEdits ==
    {RecipeA, RecipeB, [deleted |-> TRUE], [deleted |-> FALSE]}

\* the fields a clone takes from the recipe it is copied from
MirrorFields ==
    {"json_text", "template", "name", "security", "lastedit_date", "lastedit_user",
     "text", "html", "image"}

NewClone(of, p, owner) ==
    Edit(NewAnalysis(p, owner, of.pk, of.lastedit_date),
         [f \in MirrorFields |-> of[f]])

OneProjectInputs ==
    IF DOMAIN project = {} THEN {NewProject("alice", 1)} ELSE {}

CloneAnalysisInputs ==
    (IF DOMAIN analysis = {}
     THEN {Edit(NewAnalysis(p, "alice", NULL, 1), RecipeA) : p \in DOMAIN project}
     ELSE {})
    \cup (IF Cardinality(DOMAIN analysis) < MaxRecipe
          THEN {NewClone(analysis[a], analysis[a].project, "alice") : a \in DOMAIN analysis}
          ELSE {})
    \cup {Edit(analysis[a], e) : a \in DOMAIN analysis, e \in RecipeEdits}

CloneUpdateInputs == {analysis[a] : a \in DOMAIN analysis}

NextClone ==
    \/ \E self \in OneProjectInputs : ProjectSave(self, 3)
    \/ \E self \in CloneAnalysisInputs : AnalysisSave(self, 3)
    \/ \E self \in CloneUpdateInputs : UpdateChildren(self)

SpecClone == Init /\ [][NextClone]_vars

-----------------------------------------------------------------------------
(* Properties of SpecClone *)

Clones(r) == {c \in DOMAIN analysis : analysis[c].root = r}

\* C4: when a save of a root recipe R has completed, every recipe whose root is R
\* holds R's stored template, name, security, text, html and image; no state has
\* R's row saved with a new value while a clone still holds the old one.
C4_RootSaveMirrorsClones ==
    (last.op = "Analysis.save" /\ analysis[last.pk].root = NULL) =>
        \A c \in Clones(last.pk) :
            \A f \in {"template", "name", "security", "text", "html", "image"} :
                analysis[c][f] = analysis[last.pk][f]

-----------------------------------------------------------------------------
(* SpecRunnable: one project; recipes and jobs are created and saved with  *)
(* either security value, and runnable() is asked of a job as stored or    *)
(* with its security set and not yet saved.                                *)

RunRows == Cardinality(DOMAIN analysis) + Cardinality(DOMAIN job)

RunAnalysisInputs ==
    (IF RunRows < MaxRunRows
     THEN {NewAnalysis(p, "alice", NULL, 1) : p \in DOMAIN project}
     ELSE {})
    \cup {Edit(analysis[a], [security |-> x]) :
             a \in DOMAIN analysis, x \in {AUTHORIZED, NOT_AUTHORIZED}}

RunJobInputs ==
    (IF RunRows < MaxRunRows
     THEN {NewJob(a, analysis[a].project, "alice") : a \in DOMAIN analysis}
     ELSE {})
    \cup {Edit(job[j], [security |-> x]) :
             j \in DOMAIN job, x \in {AUTHORIZED, UNDER_REVIEW}}

RunnableInputs ==
    {Edit(job[j], [security |-> x]) : j \in DOMAIN job, x \in {AUTHORIZED, UNDER_REVIEW}}

NextRunnable ==
    \/ \E self \in OneProjectInputs : ProjectSave(self, 1)
    \/ \E self \in RunAnalysisInputs : AnalysisSave(self, 1)
    \/ \E self \in RunJobInputs : JobSave(self, 1)
    \/ \E self \in RunnableInputs : JobRunnable(self)

SpecRunnable == Init /\ [][NextRunnable]_vars

\* C6: J.runnable() is true exactly when J.analysis.security is AUTHORIZED and
\* J.security is AUTHORIZED: a job under review, or a job of a recipe that is not
\* authorized, is never reported runnable, and a job of an authorized recipe is
\* runnable once its security is set to AUTHORIZED.
C6_RunnableIffBothAuthorized ==
    last.op = "Job.runnable" =>
        LET jobsec == last.self.security
            recipesec == analysis[last.self.analysis].security
        IN /\ last.result <=> (recipesec = AUTHORIZED /\ jobsec = AUTHORIZED)
           /\ (jobsec = UNDER_REVIEW \/ recipesec = NOT_AUTHORIZED) => ~last.result

\* a job stored under review, of an authorized recipe, has its security set to
\* AUTHORIZED and is reported runnable
C6_Witness ==
    /\ last.op = "Job.runnable"
    /\ job[last.pk].security = UNDER_REVIEW
    /\ last.self.security = AUTHORIZED
    /\ analysis[last.self.analysis].security = AUTHORIZED
    /\ last.result

-----------------------------------------------------------------------------
(* SpecJson: one project; a root recipe and clones, and jobs, are saved    *)
(* with the payloads below as json_text, and json_data is read from the    *)
(* stored rows.                                                            *)

JsonPayloads ==
    {"settings = [",
     "",
     "title = 'x'",
     "title = 'x'\n[settings]\nname = 'old'\nextra = 'keep'",
     "[settings]",
     "title = 'x'\nsettings = 'abc'",
     "settings = 5",
     "settings = 0",
     "settings = [1, 2]"}

JsonRows == Cardinality(DOMAIN analysis) + Cardinality(DOMAIN job)

JsonAnalysisInputs ==
    (IF DOMAIN analysis = {}
     THEN {NewAnalysis(p, "alice", NULL, 1) : p \in DOMAIN project}
     ELSE IF JsonRows < MaxJsonRows
     THEN {NewClone(analysis[a], analysis[a].project, "alice") : a \in DOMAIN analysis}
     ELSE {})
    \cup {Edit(analysis[a], [json_text |-> t]) : a \in DOMAIN analysis, t \in JsonPayloads}

JsonJobInputs ==
    (IF JsonRows < MaxJsonRows
     THEN {NewJob(a, analysis[a].project, "alice") : a \in DOMAIN analysis}
     ELSE {})
    \cup {Edit(job[j], [json_text |-> t]) :
             j \in DOMAIN job, t \in {"commands", "title = 'x'"}}

NextJson ==
    \/ \E self \in OneProjectInputs : ProjectSave(self, 1)
    \/ \E self \in JsonAnalysisInputs : AnalysisSave(self, 1)
    \/ \E self \in JsonJobInputs : JobSave(self, 1)
    \/ \E a \in DOMAIN analysis : AnalysisJsonData(analysis[a])
    \/ \E j \in DOMAIN job : JobJsonData(job[j])

SpecJson == Init /\ [][NextJson]_vars

\* the mapping the stored payload parses to, the empty mapping where it does not
StoredMapping(text) == IF loads(text).ok THEN loads(text).value ELSE << >>

\* C7: for every recipe and every stored payload (unparseable, empty, without a
\* settings key, with a mapping or with a string, number or list under settings)
\* Analysis.json_data returns, without raising, a mapping with a settings key
\* whose uid and recipe_uid are the recipe's uid.
C7_JsonDataAlwaysSettings ==
    last.op = "Analysis.json_data" =>
        /\ ~last.result.raised
        /\ "settings" \in DOMAIN last.result.value
        /\ last.result.value["settings"].kind = "map"
        /\ {"uid", "recipe_uid"} \subseteq DOMAIN last.result.value["settings"].m
        /\ last.result.value["settings"].m["uid"] = StrV(last.self.uid)
        /\ last.result.value["settings"].m["recipe_uid"] = StrV(last.self.uid)

\* C8: when json_text cannot be parsed, Job.json_data returns the empty mapping
\* and Analysis.json_data a mapping that holds the derived settings only; no error
\* reaches the caller and the stored json_text is as it was.
C8_ParseFailsSoft ==
    /\ (last.op = "Job.json_data" /\ ~loads(last.self.json_text).ok) =>
          /\ ~last.result.raised
          /\ last.result.value = << >>
          /\ job[last.pk].json_text = last.self.json_text
    /\ (last.op = "Analysis.json_data" /\ ~loads(last.self.json_text).ok) =>
          /\ ~last.result.raised
          /\ DOMAIN last.result.value = {"settings"}
          /\ DOMAIN last.result.value["settings"].m = DerivedKeys
          /\ analysis[last.pk].json_text = last.self.json_text

\* json_data was read from a recipe whose stored payload does not parse
C8_Witness ==
    /\ last.op = "Analysis.json_data"
    /\ last.self.json_text = "settings = ["
    /\ analysis[last.pk].json_text = "settings = ["
    /\ last.result.value["settings"].m["name"] = StrV("New Recipe")

\* what json_data returns when it returns: the stored top-level keys and the
\* stored settings keys outside the derived ones, with their stored values, and
\* the root's id and uid, or empty strings for a recipe without a root
JsonDataFrame(self, value) ==
    LET stored == StoredMapping(self.json_text)
        kept == IF "settings" \in DOMAIN stored /\ stored["settings"].kind = "map"
                THEN stored["settings"].m ELSE << >>
        set == value["settings"].m
    IN /\ DOMAIN value = DOMAIN stored \cup {"settings"}
       /\ \A k \in DOMAIN stored \ {"settings"} : value[k] = stored[k]
       /\ DOMAIN set = DOMAIN kept \cup DerivedKeys
       /\ \A k \in DOMAIN kept \ DerivedKeys : set[k] = kept[k]
       /\ (set["root_id"] = StrV("")) <=> (self.root = NULL)
       /\ (set["root_uid"] = StrV("")) <=> (self.root = NULL)
       /\ self.root # NULL =>
             /\ set["root_id"] = IntV(self.root)
             /\ set["root_uid"] = StrV(analysis[self.root].uid)

\* C9: Analysis.json_data overwrites only the derived settings keys: every
\* top-level key other than settings and every settings key outside the derived
\* set is returned with its stored value, and root_id and root_uid are the empty
\* string exactly when the recipe has no root and otherwise the root's id and uid.
C9_JsonDataOverwritesDerivedOnly ==
    last.op = "Analysis.json_data" =>
        /\ ~last.result.raised
        /\ JsonDataFrame(last.self, last.result.value)

\* the same of the calls that return
JsonDataFrameWhenReturned ==
    (last.op = "Analysis.json_data" /\ ~last.result.raised) =>
        JsonDataFrame(last.self, last.result.value)

-----------------------------------------------------------------------------
(* SpecToc: one project with one Data record; files appear under its data  *)
(* directory and disappear, and make_toc is called on the stored record.   *)

\* file names: "B", "a", "ab", "b", "c/a"; a file's size goes with its name
FileNames == {<<66>>, <<97>>, <<97, 98>>, <<98>>, <<99, Slash, 97>>}

SizeOf(name) == Len(name) + name[1] - 60

TocDataInputs ==
    (IF DOMAIN data = {} THEN {NewData(p) : p \in DOMAIN project} ELSE {})
    \cup {data[d] : d \in DOMAIN data}

NextToc ==
    \/ \E self \in OneProjectInputs : ProjectSave(self, 1)
    \/ \E self \in TocDataInputs : DataSave(self, 1)
    \/ \E d \in DOMAIN data, name \in FileNames :
          /\ Cardinality(DOMAIN tree) < MaxFiles
          /\ WriteFile(PathChars(Data_get_data_dir(data[d], Cur)) \o <<Slash>> \o name,
                       SizeOf(name))
    \/ \E f \in DOMAIN tree : RemoveFile(f)
    \/ \E d \in DOMAIN data :
          \E collect \in findfiles(Data_get_data_dir(data[d], Cur), tree) :
              \E gone \in SUBSET {collect[i] : i \in 1..Len(collect)} :
                  MakeToc(data[d], collect, gone)

SpecToc == Init /\ [][NextToc]_vars

\* the lines of a text: the pieces between its newlines; no line in no text
RECURSIVE SplitLines(_)
SplitLines(text) ==
    IF text = << >> THEN << >>
    ELSE IF \A i \in 1..Len(text) : text[i] # NL THEN <<text>>
    ELSE LET k == CHOOSE i \in 1..Len(text) :
                      text[i] = NL /\ \A j \in 1..(i - 1) : text[j] # NL
         IN <<SubSeq(text, 1, k - 1)>>
            \o (IF k = Len(text) THEN << << >> >> ELSE SplitLines(SubSeq(text, k + 1, Len(text))))

\* C10: Data.make_toc writes to the manifest the paths of all files found under
\* the data directory, in lexicographically ascending order, joined by single
\* newlines with no trailing newline, in place of what the manifest held, and sets
\* file_count to the number of paths listed.
C10_ManifestSortedListing ==
    last.op = "Data.make_toc" =>
        LET text == manifest[get_path(data[last.pk])]
            lines == SplitLines(text)
        IN /\ {lines[i] : i \in 1..Len(lines)} = last.found
           /\ Len(lines) = Cardinality(last.found)
           /\ \A i, j \in 1..Len(lines) : i < j => LexLess(lines[i], lines[j])
           /\ text = << >> \/ text[Len(text)] # NL
           /\ last.self.file_count = Len(lines)
           /\ last.self.file = get_path(data[last.pk])

\* the walk met "b" before "a": the manifest lists "a" first, file_count is 2
C10_Witness ==
    /\ last.op = "Data.make_toc"
    /\ ~last.in_order
    /\ \E dir \in {PathChars(Data_get_data_dir(data[last.pk], Cur)) \o <<Slash>>} :
          /\ last.found = {dir \o <<97>>, dir \o <<98>>}
          /\ manifest[get_path(data[last.pk])] = dir \o <<97>> \o <<NL>> \o dir \o <<98>>
    /\ last.self.file_count = 2

\* C11: Data.make_toc is idempotent: of two calls in a row on the same record
\* during which no file under the data directory changed, the second leaves the
\* same manifest content, the same size and the same file_count as the first.
C11_MakeTocIdempotent ==
    (/\ last.op = "Data.make_toc"
     /\ last.gone = {}
     /\ last.prev # << >>
     /\ last.prev[1].gone = {})
    => /\ manifest[get_path(data[last.pk])] = last.prev[1].text
       /\ last.self.size = last.prev[1].size
       /\ last.self.file_count = last.prev[1].file_count

\* two calls in a row over the same two files, the second walk in another order
C11_Witness ==
    /\ last.op = "Data.make_toc"
    /\ last.gone = {}
    /\ last.prev # << >>
    /\ last.prev[1].gone = {}
    /\ ~last.in_order
    /\ Cardinality(last.found) = 2
    /\ last.prev[1].file_count = 2
    /\ last.prev[1].size > 0
    /\ manifest[get_path(data[last.pk])] = last.prev[1].text

RECURSIVE SumOver(_, _)
SumOver(files, tr) ==
    IF files = {} THEN 0
    ELSE LET f == CHOOSE x \in files : TRUE
         IN tr[f] + SumOver(files \ {f}, tr)

-----------------------------------------------------------------------------
(* SpecElapsed: one job whose start_date and end_date are set and saved,   *)
(* and elapsed() called on the job as loaded.                               *)

\* seconds past a whole number of days
Remainders == {0, 5, 59, 60, 125, 3599, 3600, 5400, 86399}

Durations == {day * DaySeconds + r : day \in 0..MaxDays, r \in Remainders}

StartDates == {1000, 1060}

JobDates ==
    {[start_date |-> NULL, end_date |-> NULL]}
    \cup {[start_date |-> t, end_date |-> NULL] : t \in StartDates}
    \cup {[start_date |-> NULL, end_date |-> 1000 + d] : d \in Durations}
    \cup {[start_date |-> t, end_date |-> 1000 + d] : t \in StartDates, d \in Durations}

ElapsedAnalysisInputs ==
    IF DOMAIN analysis = {} THEN {NewAnalysis(p, "alice", NULL, 1) : p \in DOMAIN project}
    ELSE {}

ElapsedJobInputs ==
    (IF DOMAIN job = {}
     THEN {NewJob(a, analysis[a].project, "alice") : a \in DOMAIN analysis}
     ELSE {})
    \cup {Edit(job[j], e) : j \in DOMAIN job, e \in JobDates}

ElapsedInputs == {job[j] : j \in DOMAIN job}

NextElapsed ==
    \/ \E self \in OneProjectInputs : ProjectSave(self, 1)
    \/ \E self \in ElapsedAnalysisInputs : AnalysisSave(self, 1)
    \/ \E self \in ElapsedJobInputs : JobSave(self, 1)
    \/ \E self \in ElapsedInputs : JobElapsed(self)

SpecElapsed == Init /\ [][NextElapsed]_vars

\* C13: for a job with both dates set and end_date d >= 0 whole seconds after
\* start_date, also for d of a day or more, elapsed() is "d seconds" when d < 60,
\* "floor(d/60) minutes" when 60 <= d < 3600, and a number of hours when
\* d >= 3600; with either date unset it is the empty string.
C13_ElapsedBucketsTotalDuration ==
    last.op = "Job.elapsed" =>
        IF last.self.start_date = NULL \/ last.self.end_date = NULL
        THEN last.result = ""
        ELSE LET d == last.self.end_date - last.self.start_date
             IN d >= 0 =>
                  CASE d < 60 -> last.result = ToString(d) \o " seconds"
                    [] d >= 60 /\ d < 3600 -> last.result = ToString(d \div 60) \o " minutes"
                    [] OTHER -> \E t \in 10..(HourTenths(d) + 1) :
                                    last.result = TenthsText(t) \o " hours"

\* the same for durations of less than one day
ElapsedBucketsWithinDay ==
    last.op = "Job.elapsed" =>
        IF last.self.start_date = NULL \/ last.self.end_date = NULL
        THEN last.result = ""
        ELSE LET d == last.self.end_date - last.self.start_date
             IN (d >= 0 /\ d < DaySeconds) =>
                  CASE d < 60 -> last.result = ToString(d) \o " seconds"
                    [] d >= 60 /\ d < 3600 -> last.result = ToString(d \div 60) \o " minutes"
                    [] OTHER -> last.result = TenthsText(HourTenths(d)) \o " hours"

-----------------------------------------------------------------------------
(* SpecUid: one project with Data, Analysis and Job rows, each created     *)
(* with no uid or with a uid the caller chose, then saved again and again; *)
(* the project is saved again with the same owner or with another.         *)

UidRows == Cardinality(DOMAIN data) + Cardinality(DOMAIN analysis) + Cardinality(DOMAIN job)

\* a new instance, as constructed or with a uid assigned that no row holds
WithUid(new, uid, tbl) ==
    {new} \cup (IF \E i \in DOMAIN tbl : tbl[i].uid = uid THEN {} ELSE {Edit(new, [uid |-> uid])})

UidProjectInputs ==
    (IF DOMAIN project = {} THEN WithUid(NewProject("alice", 1), "tutorial", project) ELSE {})
    \cup {Edit(project[p], [owner |-> u]) : p \in DOMAIN project, u \in Users}

UidDataInputs ==
    (IF UidRows < MaxUidRows
     THEN UNION {WithUid(NewData(p), "mydata01", data) : p \in DOMAIN project}
     ELSE {})
    \cup {Edit(data[d], [deleted |-> b]) : d \in DOMAIN data, b \in BOOLEAN}

UidAnalysisInputs ==
    (IF UidRows < MaxUidRows
     THEN UNION {WithUid(NewAnalysis(p, "alice", NULL, 1), "myrecipe", analysis) :
                    p \in DOMAIN project}
     ELSE {})
    \cup {Edit(analysis[a], [deleted |-> b]) : a \in DOMAIN analysis, b \in BOOLEAN}

UidJobInputs ==
    (IF UidRows < MaxUidRows
     THEN UNION {WithUid(NewJob(a, analysis[a].project, "alice"), "myjob001", job) :
                    a \in DOMAIN analysis}
     ELSE {})
    \cup {Edit(job[j], [deleted |-> b]) : j \in DOMAIN job, b \in BOOLEAN}

NextUid ==
    \/ \E self \in UidProjectInputs : ProjectSave(self, 1)
    \/ \E self \in UidDataInputs : DataSave(self, 1)
    \/ \E self \in UidAnalysisInputs : AnalysisSave(self, 1)
    \/ \E self \in UidJobInputs : JobSave(self, 1)

SpecUid == Init /\ [][NextUid]_vars

Saves == {"Project.save", "Data.save", "Analysis.save", "Job.save"}

\* the table a save writes its row to
TableOf(op) ==
    CASE op = "Project.save" -> project
      [] op = "Data.save" -> data
      [] op = "Analysis.save" -> analysis
      [] op = "Job.save" -> job

\* the row keeps the uid the instance came with, and gets one of 8 characters
\* when it came with none
UidAssignedWhenUnset ==
    last.op \in Saves =>
        LET uid == TableOf(last.op)[last.pk].uid
        IN /\ Len(uid) = 8
           /\ last.given # "" => uid = last.given

\* no step changes the uid of a stored row, nor a path derived from it
UidStable ==
    /\ \A p \in DOMAIN project :
          /\ project'[p].uid = project[p].uid
          /\ get_project_dir(project'[p]) = get_project_dir(project[p])
    /\ \A d \in DOMAIN data :
          /\ data'[d].uid = data[d].uid
          /\ Data_get_data_dir(data'[d], [project |-> project']) = Data_get_data_dir(data[d], Cur)
          /\ get_path(data'[d]) = get_path(data[d])
          /\ data'[d].file = data[d].file
    /\ \A a \in DOMAIN analysis : analysis'[a].uid = analysis[a].uid
    /\ \A j \in DOMAIN job :
          /\ job'[j].uid = job[j].uid
          /\ make_path(job'[j]) = make_path(job[j])
          /\ job'[j].path = job[j].path

\* C14: Project, Data, Analysis and Job save assign a fresh uid of 8 characters
\* only when the instance has none; through every later save the stored uid is
\* non-empty and the same, and so are the project, data and job directory paths
\* and the manifest path.
C14_UidAssignedOnceAndStable == [](UidAssignedWhenUnset) /\ [][UidStable]_vars

\* a job created with no uid and a recipe created with a chosen one, both saved
\* again since
C14_Witness ==
    /\ last.op = "Job.save"
    /\ last.given # ""
    /\ job[last.pk].deleted
    /\ job[last.pk].uid = "jobs0001"
    /\ job[last.pk].path = <<"MEDIA_ROOT", "jobs", "jobs0001">>
    /\ \E a \in DOMAIN analysis : analysis[a].uid = "myrecipe" /\ analysis[a].deleted

\* the Access rows that grant write access on project p to user u
WriteRows(u, p) ==
    {i \in DOMAIN access :
        access[i].user = u /\ access[i].project = p /\ access[i].access = WRITE_ACCESS}

\* C15: after every completed Project save, those a child's save starts through
\* set_counts included, an Access row with access = WRITE_ACCESS exists for the
\* project and its owner, and saving again in sequence never adds a second one:
\* the number of such rows is exactly one.
C15_OwnerHasOneWriteAccess ==
    \A p \in DOMAIN project : Cardinality(WriteRows(project[p].owner, p)) = 1

\* the project has been saved by its creation, by a child's creation and by
\* the child's later save, and one Access row exists
C15_Witness ==
    /\ last.op = "Data.save"
    /\ data[last.pk].deleted
    /\ Len(access) = 1
    /\ Cardinality(WriteRows(project[last.project].owner, last.project)) = 1

-----------------------------------------------------------------------------
(* SpecTemplate: one recipe whose template is edited and saved, and jobs of *)
(* it that are created and saved again, with whatever template they hold.  *)

Templates == {"echo hi", "echo bye", "echo hi\r\n"}

TemplateAnalysisInputs ==
    (IF DOMAIN analysis = {}
     THEN {NewAnalysis(p, "alice", NULL, 1) : p \in DOMAIN project}
     ELSE {})
    \cup {Edit(analysis[a], [template |-> t]) : a \in DOMAIN analysis, t \in Templates}

TemplateJobInputs ==
    (IF Cardinality(DOMAIN job) < MaxTemplateJobs
     THEN {NewJob(a, analysis[a].project, "alice") : a \in DOMAIN analysis}
     ELSE {})
    \cup {job[j] : j \in DOMAIN job}
    \cup {Edit(job[j], [template |-> "edited"]) : j \in DOMAIN job}

NextTemplate ==
    \/ \E self \in OneProjectInputs : ProjectSave(self, 1)
    \/ \E self \in TemplateAnalysisInputs : AnalysisSave(self, 1)
    \/ \E self \in TemplateJobInputs : JobSave(self, 1)

SpecTemplate == Init /\ [][NextTemplate]_vars

\* the saved job holds the template its recipe has at that save
JobSaveMirrorsTemplate ==
    last.op = "Job.save" =>
        job[last.pk].template = analysis[job[last.pk].analysis].template

\* a save of a recipe writes no Job row
AnalysisSaveKeepsJobs == last'.op = "Analysis.save" => job' = job

\* C16: after every Job.save the job's stored template is the template its
\* analysis has at that save, whatever the job held before; a change of the
\* analysis's template made later changes no Job row until that job is saved
\* again.
C16_JobTemplateMirrorsAtSave == [](JobSaveMirrorsTemplate) /\ [][AnalysisSaveKeepsJobs]_vars

\* one job saved before the recipe's template changed and still holding the old
\* one, another saved after it and holding the new one
C16_Witness ==
    /\ last.op = "Job.save"
    /\ job[last.pk].template = "echo bye"
    /\ analysis[job[last.pk].analysis].template = "echo bye"
    /\ \E j \in DOMAIN job :
          /\ job[j].analysis = job[last.pk].analysis
          /\ job[j].template = "echo hi"

\* after a Data.save the data directory and the manifest exist, and the row's
\* file is the manifest's path
DataSaveLeavesFiles ==
    last.op = "Data.save" =>
        /\ Data_get_data_dir(data[last.pk], Cur) \in dirs
        /\ get_path(data[last.pk]) \in DOMAIN manifest
        /\ data[last.pk].file = get_path(data[last.pk])

\* a Data.save changes no manifest that exists and removes no directory, and
\* adds none when the record's data directory exists
DataSaveKeepsFiles ==
    last'.op = "Data.save" =>
        /\ \A f \in DOMAIN manifest : f \in DOMAIN manifest' /\ manifest'[f] = manifest[f]
        /\ dirs \subseteq dirs'
        /\ \A d \in DOMAIN data :
              (d = last'.pk /\ Data_get_data_dir(data[d], Cur) \in dirs) => dirs' = dirs

\* C17: after every successful Data.save the data directory and the manifest
\* file at the record's toc path exist and Data.file is that path; a Data.save of
\* a record whose manifest exists leaves its content as it was, and saving again
\* creates no directory again.
C17_DataSaveFilesExist == [](DataSaveLeavesFiles) /\ [][DataSaveKeepsFiles]_vars

\* a record saved again after make_toc listed two files: the listing is kept
C17_Witness ==
    /\ last.op = "Data.save"
    /\ Len(SplitLines(manifest[get_path(data[last.pk])])) = 2
    /\ Data_get_data_dir(data[last.pk], Cur) \in dirs

-----------------------------------------------------------------------------
(* SpecFs: one project with one Data record, one recipe and one job, saved  *)
(* while directories and the manifest become impossible to create and      *)
(* directories are removed.                                                 *)

FsPaths ==
    {<<"MEDIA_ROOT", "projects", "proj0001">>,
     <<"MEDIA_ROOT", "projects", "proj0001", "data0001">>,
     <<"MEDIA_ROOT", "jobs", "jobs0001">>,
     <<"TOC_ROOT", "toc-data0001.txt">>}

FsProjectInputs == OneProjectInputs \cup {project[p] : p \in DOMAIN project}

FsDataInputs ==
    (IF DOMAIN data = {} THEN {NewData(p) : p \in DOMAIN project} ELSE {})
    \cup {Edit(data[d], [deleted |-> b]) : d \in DOMAIN data, b \in BOOLEAN}

FsAnalysisInputs ==
    IF DOMAIN analysis = {} THEN {NewAnalysis(p, "alice", NULL, 1) : p \in DOMAIN project}
    ELSE {}

FsJobInputs ==
    (IF DOMAIN job = {}
     THEN {NewJob(a, analysis[a].project, "alice") : a \in DOMAIN analysis}
     ELSE {})
    \cup {Edit(job[j], [deleted |-> b]) : j \in DOMAIN job, b \in BOOLEAN}

NextFs ==
    \/ \E self \in FsProjectInputs : ProjectSave(self, 1)
    \/ \E self \in FsDataInputs : DataSave(self, 1)
    \/ \E self \in FsAnalysisInputs : AnalysisSave(self, 1)
    \/ \E self \in FsJobInputs : JobSave(self, 1)
    \/ \E path \in FsPaths \ broken : Cardinality(broken) < MaxBroken /\ Break(path)
    \/ \E path \in broken : Repair(path)
    \/ \E path \in dirs \cap FsPaths : RemoveDir(path)

SpecFs == Init /\ [][NextFs]_vars

\* a save that returned has its directory, and Data.save its manifest: no
\* failure to create them was passed over
SaveReturnsWithFiles ==
    (last.op \in Saves /\ ~last.raised) =>
        /\ last.op = "Project.save" => get_project_dir(project[last.pk]) \in dirs
        /\ last.op = "Data.save" =>
              /\ Data_get_data_dir(data[last.pk], Cur) \in dirs
              /\ get_path(data[last.pk]) \in DOMAIN manifest
        /\ last.op = "Job.save" => make_path(job[last.pk]) \in dirs

\* a Project.save, Data.save or Job.save that raised has written no row
FailedSaveKeepsRows ==
    (last'.op \in {"Project.save", "Data.save", "Job.save"} /\ last'.raised) =>
        /\ project' = project
        /\ data' = data
        /\ analysis' = analysis
        /\ job' = job
        /\ access' = access

\* C18: when the creation of a directory or of the manifest fails during
\* Project.save, Data.save or Job.save, the error reaches the caller and the save
\* has left the database as it was: the entity's row is neither inserted nor
\* updated and no other row, the project's counts, lastedit fields and Access
\* rows included, is changed.
C18_FailedSaveLeavesDatabase == [](SaveReturnsWithFiles) /\ [][FailedSaveKeepsRows]_vars

\* the job's directory cannot be created: Job.save raised, no Job row exists
\* and the project's row still has the count it had
C18_Witness ==
    /\ last.op = "Job.save"
    /\ last.raised
    /\ DOMAIN job = {}
    /\ DOMAIN analysis # {}
    /\ \A p \in DOMAIN project : project[p].recipes_count = 0
    /\ <<"MEDIA_ROOT", "jobs", "jobs0001">> \notin dirs

-----------------------------------------------------------------------------
(* SpecDelete: two projects with Data records, recipes, copies of recipes   *)
(* and jobs are built up, and then recipes and projects are deleted.        *)

\* nothing has been deleted
Building == last.op \notin {"Analysis.delete", "Project.delete"}

DeleteRows ==
    Cardinality(DOMAIN data) + Cardinality(DOMAIN analysis) + Cardinality(DOMAIN job)

DeleteProjectInputs ==
    IF Building /\ Cardinality(DOMAIN project) < 2 THEN {NewProject("alice", 1)} ELSE {}

DeleteDataInputs ==
    IF Building /\ DeleteRows < MaxDeleteRows
    THEN {NewData(p) : p \in DOMAIN project}
    ELSE {}

DeleteAnalysisInputs ==
    IF Building /\ DeleteRows < MaxDeleteRows
    THEN {Edit(NewAnalysis(p, "alice", NULL, 1), RecipeA) : p \in DOMAIN project}
         \cup {NewClone(analysis[a], p, "bob") : a \in DOMAIN analysis, p \in DOMAIN project}
    ELSE {}

DeleteJobInputs ==
    IF Building /\ DeleteRows < MaxDeleteRows
    THEN {NewJob(a, analysis[a].project, "alice") : a \in DOMAIN analysis}
    ELSE {}

NextDelete ==
    \/ \E self \in DeleteProjectInputs : ProjectSave(self, 1)
    \/ \E self \in DeleteDataInputs : DataSave(self, 1)
    \/ \E self \in DeleteAnalysisInputs : AnalysisSave(self, 1)
    \/ \E self \in DeleteJobInputs : JobSave(self, 1)
    \/ \E a \in DOMAIN analysis : AnalysisDelete(analysis[a])
    \/ \E p \in DOMAIN project : ProjectDelete(project[p])

SpecDelete == Init /\ [][NextDelete]_vars

\* C19: deleting a root recipe R does not delete its clones: every recipe that
\* had root = R still exists, with root = null and every other field as it was,
\* so is_root is true and is_cloned false for it; deleting a Project removes all
\* its Data, Analysis and Job rows.
C19_RootDeleteKeepsClones ==
    /\ last.op = "Analysis.delete" =>
          /\ last.pk \notin DOMAIN analysis
          /\ \A c \in DOMAIN last.clones :
                /\ c \in DOMAIN analysis
                /\ analysis[c] = [last.clones[c] EXCEPT !.root = NULL]
                /\ is_root(analysis[c])
                /\ ~is_cloned(analysis[c])
    /\ last.op = "Project.delete" =>
          /\ last.pk \notin DOMAIN project
          /\ \A d \in DOMAIN data : data[d].project # last.pk
          /\ \A a \in DOMAIN analysis : analysis[a].project # last.pk
          /\ \A j \in DOMAIN job : job[j].project # last.pk

\* a root with two clones was deleted and both clones are there
C19_Witness ==
    /\ last.op = "Analysis.delete"
    /\ Cardinality(DOMAIN last.clones) = 2
    /\ \A c \in DOMAIN last.clones : c \in DOMAIN analysis /\ is_root(analysis[c])

\* a project with three rows was deleted
C19_ProjectDeleted ==
    /\ last.op = "Project.delete"
    /\ last.rows = 3
    /\ DOMAIN project # {}

-----------------------------------------------------------------------------
(* SpecRace: two projects, and requests that each create a Data record in  *)
(* one of them at the same time, the steps of their Data.save interleaved. *)

Procs == 1..MaxProcs

RaceProjectInputs ==
    IF Cardinality(DOMAIN project) < 2 THEN {NewProject("alice", 1)} ELSE {}

NextRace ==
    \/ \E self \in RaceProjectInputs : ProjectSave(self, 1)
    \/ \E p \in Procs, pr \in DOMAIN project : RaceInsert(p, NewData(pr))
    \/ \E p \in Procs : RaceCount(p)
    \/ \E p \in Procs : RaceRecount(p)
    \/ \E p \in Procs : RaceWrite(p)

SpecRace == Init /\ [][NextRace]_vars

\* C20: two child saves that run at the same time in one project can leave,
\* when both have completed, a stored count below the number of the project's
\* non-deleted children: the project row is written with the count its request
\* read earlier, not with the count at the time of the write, and that count
\* can be behind; two Data.save creations can end with data_count = 1 and two
\* live Data rows.
C20_WriteStoresCountReadEarlier ==
    last.op = "Project.save:write" =>
        /\ project[last.pk].data_count = last.counted
        /\ last.counted <= Cardinality(Children(data, last.pk))

\* both requests have completed, two live Data rows, data_count = 1
C20_Witness ==
    /\ DOMAIN proc = {1, 2}
    /\ \A p \in DOMAIN proc : proc[p].pc = "done"
    /\ \E pr \in DOMAIN project :
          /\ Cardinality(Children(data, pr)) = 2
          /\ project[pr].data_count = 1

-----------------------------------------------------------------------------
(* SpecState: jobs of one recipe, saved with any state and security, and   *)
(* asked whether they are started or finished.                             *)

States == {QUEUED, RUNNING, COMPLETED, ERROR, SPOOLED, PAUSED}

StateJobInputs ==
    (IF Cardinality(DOMAIN job) < MaxStateJobs
     THEN {NewJob(a, analysis[a].project, "alice") : a \in DOMAIN analysis}
     ELSE {})
    \cup {Edit(job[j], [state |-> s, security |-> x,
                        start_date |-> IF s = QUEUED THEN NULL ELSE 1000,
                        end_date |-> IF s \in {COMPLETED, ERROR} THEN 1060 ELSE NULL]) :
             j \in DOMAIN job, s \in States, x \in {AUTHORIZED, UNDER_REVIEW}}

NextState ==
    \/ \E self \in OneProjectInputs : ProjectSave(self, 1)
    \/ \E self \in ElapsedAnalysisInputs : AnalysisSave(self, 1)
    \/ \E self \in StateJobInputs : JobSave(self, 1)
    \/ \E j \in DOMAIN job : JobIsStarted(job[j])
    \/ \E j \in DOMAIN job : JobIsFinished(job[j])

SpecState == Init /\ [][NextState]_vars

\* C21: the data layer has no transition table for Job.state: whatever state the
\* stored job has, one of a finished job included, a Job.save that carries any
\* of the six states succeeds, and the row it writes has the state, security,
\* start_date and end_date the instance came with.
C21_JobSaveKeepsState ==
    last.op = "Job.save" =>
        /\ ~last.raised
        /\ last.pk \in DOMAIN job
        /\ \A f \in DOMAIN last.kept : job[last.pk][f] = last.kept[f]

\* a completed job was saved as queued, and is queued
C21_Witness ==
    /\ last.op = "Job.save"
    /\ last.was = COMPLETED
    /\ last.kept.state = QUEUED
    /\ job[last.pk].state = QUEUED
    /\ job[last.pk].end_date = NULL

\* C22: is_started() is true exactly for Queued, Spooled and Running,
\* is_finished() exactly for Completed and Error; no state has both, and Paused
\* is the only state that has neither.
C22_StatePredicatesPartition ==
    /\ last.op = "Job.is_started" =>
          (last.result <=> last.self.state \in {QUEUED, SPOOLED, RUNNING})
    /\ last.op = "Job.is_finished" =>
          (last.result <=> last.self.state \in {COMPLETED, ERROR})
    /\ \A j \in DOMAIN job :
          /\ ~(Job_is_started(job[j]) /\ Job_is_finished(job[j]))
          /\ (~Job_is_started(job[j]) /\ ~Job_is_finished(job[j])) <=> job[j].state = PAUSED

\* a paused job is asked whether it is started: it is not, nor is it finished
C22_Witness ==
    /\ last.op = "Job.is_started"
    /\ last.self.state = PAUSED
    /\ ~last.result
    /\ ~Job_is_finished(last.self)

-----------------------------------------------------------------------------
(* SpecCascade: two projects; a recipe, copies of it and copies of copies   *)
(* in either project, jobs of them, and update_children called on a stored *)
(* recipe.                                                                  *)

CascadeRows == Cardinality(DOMAIN analysis) + Cardinality(DOMAIN job)

CascadeProjectInputs ==
    IF DOMAIN project = {} THEN {NewProject("alice", 4)}
    ELSE IF Cardinality(DOMAIN project) < 2 THEN {NewProject("bob", 5)}
    ELSE {}

\* a copy has its own owner and rank
CascadeAnalysisInputs ==
    (IF DOMAIN analysis = {}
     THEN {Edit(NewAnalysis(p, "alice", NULL, 1), RecipeA) : p \in DOMAIN project}
     ELSE {})
    \cup (IF CascadeRows < MaxCascadeRows
          THEN {Edit(NewClone(analysis[a], p, "bob"), [rank |-> 50]) :
                   a \in DOMAIN analysis, p \in DOMAIN project}
          ELSE {})
    \cup {Edit(analysis[a], RecipeB) : a \in DOMAIN analysis}

CascadeJobInputs ==
    IF CascadeRows < MaxCascadeRows
    THEN {NewJob(a, analysis[a].project, "alice") : a \in DOMAIN analysis}
    ELSE {}

NextCascade ==
    \/ \E self \in CascadeProjectInputs : ProjectSave(self, 3)
    \/ \E self \in CascadeAnalysisInputs : AnalysisSave(self, 3)
    \/ \E self \in CascadeJobInputs : JobSave(self, 3)
    \/ \E self \in CloneUpdateInputs : UpdateChildren(self)

SpecCascade == Init /\ [][NextCascade]_vars

\* the projects that hold a recipe whose root is r
CloneProjects(r) == {analysis[c].project : c \in Clones(r)}

\* an update_children step writes R's lastedit values to the projects that hold
\* a clone of R and leaves the other projects' as they were
CascadeTouchesCloneProjects ==
    last'.op = "Analysis.update_children" =>
        \A q \in DOMAIN project :
            IF q \in CloneProjects(last'.pk)
            THEN /\ project'[q].lastedit_date = last'.self.lastedit_date
                 /\ project'[q].lastedit_user = last'.self.lastedit_user
            ELSE /\ project'[q].lastedit_date = project[q].lastedit_date
                 /\ project'[q].lastedit_user = project[q].lastedit_user

\* C23: after R.update_children() every Project that holds at least one recipe
\* whose root is R has R's lastedit_date and lastedit_user, and every Project
\* that holds no clone of R keeps its own.
C23_CascadeUpdatesCloneProjects == [][CascadeTouchesCloneProjects]_vars

\* R is in one project and its clone in the other: the other project has R's
\* lastedit values, R's own project has not
C23_Witness ==
    /\ last.op = "Analysis.update_children"
    /\ CloneProjects(last.pk) # {}
    /\ last.project \notin CloneProjects(last.pk)
    /\ \A q \in CloneProjects(last.pk) :
          /\ project[q].lastedit_date = last.self.lastedit_date
          /\ project[q].lastedit_user = last.self.lastedit_user
    /\ project[last.project].lastedit_date # last.self.lastedit_date

\* an update_children step changes the mirrored fields of R's clones and
\* nothing else of the recipes, the jobs and the projects' counts
CascadeFrame ==
    last'.op = "Analysis.update_children" =>
        /\ DOMAIN analysis' = DOMAIN analysis
        /\ \A a \in DOMAIN analysis :
              IF analysis[a].root = last'.pk
              THEN \A f \in DOMAIN analysis[a] \ MirrorFields : analysis'[a][f] = analysis[a][f]
              ELSE analysis'[a] = analysis[a]
        /\ job' = job
        /\ data' = data
        /\ DOMAIN project' = DOMAIN project
        /\ \A q \in DOMAIN project :
              \A f \in DOMAIN project[q] \ {"lastedit_date", "lastedit_user"} :
                  project'[q][f] = project[q][f]

\* C24: R.update_children() changes nothing outside the mirrored fields of its
\* clones: every recipe whose root is not R, R itself and the clones of R's
\* clones included, is as it was; each clone keeps its uid, project, root, owner,
\* rank and deleted flag; no project's data_count, recipes_count or jobs_count
\* and no Job row is changed.
C24_CascadeFrame == [][CascadeFrame]_vars

\* R has a clone and the clone has a clone: the first holds R's template and
\* its own owner and rank, the second still holds another template
C24_Witness ==
    /\ last.op = "Analysis.update_children"
    /\ last.self.template = "echo bye"
    /\ \E c \in Clones(last.pk) :
          /\ analysis[c].template = "echo bye"
          /\ analysis[c].owner = "bob"
          /\ analysis[c].rank = 50
          /\ \E cc \in Clones(c) : analysis[cc].template = "echo hi"

\* C25: when an Analysis.save has completed, the stored row of the recipe's
\* project has lastedit_date equal to the time that save took and lastedit_user
\* equal to the recipe's lastedit_user: the refresh of the counts that follows
\* the update in the same save does not write the earlier values back.
C25_AnalysisSaveStampsProject ==
    (last.op = "Analysis.save" /\ ~last.raised) =>
        /\ project[last.project].lastedit_date = last.now
        /\ project[last.project].lastedit_user = analysis[last.pk].lastedit_user

\* what the project row does hold after an Analysis.save: the lastedit values it
\* had before it
AnalysisSaveKeepsProjectStamp ==
    last'.op = "Analysis.save" =>
        /\ project'[last'.project].lastedit_date = project[last'.project].lastedit_date
        /\ project'[last'.project].lastedit_user = project[last'.project].lastedit_user

ProjectStampIsStale == [][AnalysisSaveKeepsProjectStamp]_vars

====
